---- MODULE Spec2Model ----
(***************************************************************************)
(* Drowsiness detection backend (flask-backend/app.py).                    *)
(*                                                                         *)
(* Spec           : the threaded request pipeline of POST /detect-video:   *)
(*                  the startup model load, the interpreter behind         *)
(*                  model_lock, the previous_predictions deque and the     *)
(*                  decision, with NumThreads worker threads.              *)
(* SpecWindow     : the same pipeline and threads, model loaded, under a   *)
(*                  longer stream of frames that all reach the append.     *)
(* SpecLocator    : crop_eyes as a function of the cascade detections.     *)
(* SpecPreprocess : crop_eyes and preprocess_image as a function of the    *)
(*                  declared input shape and of one face's two eyes.       *)
(*                                                                         *)
(* Steps of a request interleave with other threads' steps wherever the    *)
(* interpreter lock of CPython may switch threads between two statements;  *)
(* deque.append and the read of the deque by np.mean are single steps.     *)
(* A frame stands for what cv2.imread returns for the request and what the *)
(* cascades detect in it; a tensor stands for the output the classifier    *)
(* computes from it, and set_tensor is taken to accept it (the shape of    *)
(* the tensor is the subject of SpecPreprocess).                           *)
(*                                                                         *)
(* Probabilities are counted in quarters (0.5 is Threshold = 2), all       *)
(* exactly representable as floats, so np.mean compares with 0.5 as the    *)
(* rational mean does.                                                     *)
(***************************************************************************)
EXTENDS Integers, Sequences, FiniteSets, TLC

\* ---------------------------------------------------------------- bounds
NumThreads == 2
MaxRequests == 3
MaxPushes == 6
MaxCoord == 1
MaxSize == 2
MaxEyes == 3
MaxFaces == 2
MaxDim == 2

\* ------------------------------------------------------ program constants
\* deque(maxlen=5)
WindowMaxLen == 5

\* the decision threshold 0.5, in quarters
Threshold == 2

Threads == 1 .. NumThreads

\* classifier outputs used by the pipeline: 0.25 and 0.75
Probs == {1, 3}

\* output_data as a flat sequence: << >> is an array of size 0
EmptyOutput == << >>
NoData == << -1 >>
Outputs == {EmptyOutput} \cup {<<p>> : p \in Probs}

\* An eye rectangle (ex, ey, ew, eh) relative to the face ROI.
Rects == [x : 0 .. MaxCoord, y : 0 .. MaxCoord, w : 1 .. MaxSize, h : 1 .. MaxSize]

\* two eye rectangles side by side
EyeA == [x |-> 0, y |-> 0, w |-> 1, h |-> 1]
EyeB == [x |-> 1, y |-> 0, w |-> 1, h |-> 1]

\* eye rectangles of the locator runs
LocRects == {EyeA, EyeB}

RECURSIVE SeqsUpTo(_, _)
SeqsUpTo(S, n) ==
    IF n = 0 THEN {<< >>}
    ELSE LET shorter == SeqsUpTo(S, n - 1)
         IN  shorter \cup {Append(s, e) : s \in {q \in shorter : Len(q) = n - 1}, e \in S}

\* the result of eye_cascade.detectMultiScale for one face
EyeLists == SeqsUpTo(LocRects, MaxEyes)

\* the detections of a frame: one eye list per face returned by face_cascade
FaceLists == SeqsUpTo(EyeLists, MaxFaces)

\* declared input shapes [1, H, W, C]
Shapes == {<<1, hh, ww, cc>> : hh \in 1 .. MaxDim, ww \in 1 .. MaxDim, cc \in {1, 3}}

\* the shape of the comment's example, scaled down: square, RGB
ExampleShape == <<1, 2, 2, 3>>

NoShape == << >>
NoRect == [x |-> 0, y |-> 0, w |-> 0, h |-> 0]
NoRegion == [found |-> FALSE, face |-> 0, rect |-> NoRect, shape |-> NoShape]

Min(a, b) == IF a < b THEN a ELSE b
Max(a, b) == IF a > b THEN a ELSE b

\* ------------------------------------------------------------ crop_eyes
\* if ex1 > ex2: swap all four fields, i.e. the two rectangles
OrderEyes(e1, e2) == IF e1.x > e2.x THEN <<e2, e1>> ELSE <<e1, e2>>

\* eye_x, eye_y, eye_w, eye_h from eyes[0], eyes[1]
MergeEyes(e1, e2) ==
    LET o == OrderEyes(e1, e2)
    IN  [x |-> o[1].x,
         y |-> Min(o[1].y, o[2].y),
         w |-> o[2].x + o[2].w - o[1].x,
         h |-> Max(o[1].h, o[2].h)]

\* if len(eyes) >= 2
EnoughEyes(eyes) == Len(eyes) >= 2

\* variant: the loop left after its first iteration
ScanFirstOnly(faces, i) ==
    IF Len(faces) >= 1 /\ Len(faces[1]) >= 2 THEN 1 ELSE 0

\* for (x, y, w, h) in faces: ... return at the first face that passes the test
RECURSIVE ScanFaces(_, _)
ScanFaces(faces, i) ==
    IF i > Len(faces) THEN 0
    ELSE IF EnoughEyes(faces[i]) THEN i
    ELSE ScanFaces(faces, i + 1)

\* MODEL_IMG_SIZE = (input_shape[1], input_shape[2]), 0-based in the source
ModelImgSize(shape) == <<shape[2], shape[3]>>

\* REQUIRED_CHANNELS = input_shape[3]
RequiredChannels(shape) == shape[4]

\* cv2.resize(src, dsize): dsize is (width, height); the result has
\* dsize[1] rows and dsize[0] columns (0-based), whatever the source size
Resize(dsize) == <<dsize[2], dsize[1]>>

\* (MODEL_IMG_SIZE[0] * 2, MODEL_IMG_SIZE[1] * 2)
ZoomSize(shape) == <<ModelImgSize(shape)[1] * 2, ModelImgSize(shape)[2] * 2>>

\* crop_eyes: None, or the zoomed eye region (its shape and where it came from)
crop_eyes(faces, shape) ==
    LET i == ScanFaces(faces, 1)
    IN  IF i = 0 THEN NoRegion
        ELSE [found |-> TRUE,
              face  |-> i,
              rect  |-> MergeEyes(faces[i][1], faces[i][2]),
              shape |-> Resize(ZoomSize(shape))]

\* ------------------------------------------------------ preprocess_image
\* cv2.cvtColor(normalized, cv2.COLOR_GRAY2RGB) only when REQUIRED_CHANNELS == 3
AdaptChannels(imgshape, channels) ==
    IF channels = 3 THEN Append(imgshape, 3) ELSE imgshape

\* np.expand_dims(normalized, axis=0)
ExpandDims(imgshape) == <<1>> \o imgshape

\* preprocess_image: None (found = FALSE) or the tensor's shape
preprocess_image(faces, shape) ==
    LET eye_roi == crop_eyes(faces, shape)
    IN  IF ~eye_roi.found THEN [found |-> FALSE, shape |-> NoShape]
        ELSE [found |-> TRUE,
              shape |-> ExpandDims(AdaptChannels(Resize(ModelImgSize(shape)),
                                                 RequiredChannels(shape)))]

\* ------------------------------------------------------- smoothing window
RECURSIVE SeqSum(_)
SeqSum(s) == IF s = << >> THEN 0 ELSE Head(s) + SeqSum(Tail(s))

\* variant: a deque without maxlen
DequeAppendUnbounded(d, v) == Append(d, v)

\* previous_predictions.append(probability) on a deque(maxlen=5)
DequeAppend(d, v) ==
    IF Len(d) >= WindowMaxLen THEN Tail(d) \o <<v>> ELSE Append(d, v)

\* np.mean(previous_predictions), kept as <<sum, count>>
Mean(d) == <<SeqSum(d), Len(d)>>

\* variant: >= in place of >
DecideInclusive(m) == IF m[1] >= Threshold * m[2] THEN "Drowsy" ELSE "Awake"

\* "Drowsy" if smoothed_prob > 0.5 else "Awake"
Decide(m) == IF m[1] > Threshold * m[2] THEN "Drowsy" ELSE "Awake"

\* isinstance(output_data, np.ndarray) and output_data.size > 0
OutputUsable(o) == Len(o) > 0

\* float(output_data[0][0])
Probability(o) == o[1]

\* ------------------------------------------------------------- requests
\* the face detections of the frames the requests carry
SampleFaces ==
    { << >>,
      << <<EyeA>> >>,
      << <<EyeA, EyeB>> >>,
      << <<EyeA>>, <<EyeA, EyeB>> >> }

\* a request: is the multipart field there, does cv2.imread decode the saved
\* file, and what the cascades find in the image
Frames ==
    { [field |-> FALSE, decodable |-> FALSE, faces |-> << >>],
      [field |-> TRUE,  decodable |-> FALSE, faces |-> << >>] }
    \cup [field : {TRUE}, decodable : {TRUE}, faces : SampleFaces]

NoFrame == [field |-> FALSE, decodable |-> FALSE, faces |-> << >>]
NoTensor == [owner |-> 0, out |-> NoData]
NoMean == <<0, 0>>
NoLabel == "-"
NoResponse == [code |-> 0, key |-> "-", value |-> "-"]

ErrorResponse(msg) == [code |-> 400, key |-> "error", value |-> msg]
StatusResponse(prediction) == [code |-> 200, key |-> "status", value |-> prediction]

VARIABLES
    interpreter,          \* "loaded" or "None"
    input_shape,          \* input_details[0]['shape']
    model_lock,           \* 0 when free, else the holding thread
    input_tensor,         \* the interpreter's bound input
    output_tensor,        \* the interpreter's output buffer
    previous_predictions, \* the deque
    pc,                   \* per thread: where its request stands
    frame,                \* per thread: the request's frame
    tensor,               \* per thread: what the classifier yields on its tensor
    output_data,          \* per thread: the output it read
    smoothed_prob,        \* per thread: the mean it read
    response,             \* per thread: the response of its last request
    served,               \* history: requests received
    entered,              \* history: entries into the with-block
    invocations,          \* history: interpreter.invoke() calls
    pushed,               \* history: every value appended, in order
    my_push,              \* history: appends made by the thread's request
    atomic_label,         \* history: the label at the moment of the append
    inferred,             \* history: requests that returned a smoothed label
    stage,                \* function runs: "input", "cropped" or "preprocessed"
    faces,                \* function runs: the cascades' detections
    eye_roi,              \* function runs: crop_eyes' result
    reshaped,             \* function runs: preprocess_image's result
    clients               \* what the clients send: how many requests, which frames

vars == <<interpreter, input_shape, model_lock, input_tensor, output_tensor,
          previous_predictions, pc, frame, tensor, output_data, smoothed_prob,
          response, served, entered, invocations, pushed, my_push, atomic_label,
          inferred, stage, faces, eye_roi, reshaped, clients>>

engine == <<model_lock, input_tensor, output_tensor>>
startup == <<interpreter, input_shape>>
history == <<entered, invocations, pushed, my_push, atomic_label>>
rest == <<stage, faces, eye_roi, reshaped, clients, inferred>>

NoPreprocessed == [found |-> FALSE, shape |-> NoShape]

IdleThreads ==
    /\ model_lock = 0
    /\ input_tensor = NoTensor
    /\ output_tensor = NoTensor
    /\ previous_predictions = << >>
    /\ pc = [t \in Threads |-> "idle"]
    /\ frame = [t \in Threads |-> NoFrame]
    /\ tensor = [t \in Threads |-> NoData]
    /\ output_data = [t \in Threads |-> NoTensor]
    /\ smoothed_prob = [t \in Threads |-> NoMean]
    /\ response = [t \in Threads |-> NoResponse]
    /\ served = 0
    /\ entered = 0
    /\ invocations = 0
    /\ pushed = << >>
    /\ my_push = [t \in Threads |-> 0]
    /\ atomic_label = [t \in Threads |-> NoLabel]
    /\ inferred = 0

NoFuncs ==
    /\ stage = "off"
    /\ faces = << >>
    /\ eye_roi = NoRegion
    /\ reshaped = NoPreprocessed

\* module load: the try block succeeds or the except branch sets interpreter = None
Init ==
    /\ \/ interpreter = "loaded" /\ input_shape = ExampleShape
       \/ interpreter = "None" /\ input_shape = NoShape
    /\ IdleThreads
    /\ NoFuncs
    /\ clients = [quota |-> MaxRequests, frames |-> Frames, outputs |-> Outputs]

\* the same server, loaded, under a stream of frames that all show two eyes
\* and all get a probability of 0.25 or 0.75
StreamFrames == {[field |-> TRUE, decodable |-> TRUE, faces |-> << <<EyeA, EyeB>> >>]}
StreamOutputs == {<<1>>, <<3>>}
InitWindow ==
    /\ interpreter = "loaded"
    /\ input_shape = ExampleShape
    /\ IdleThreads
    /\ NoFuncs
    /\ clients = [quota |-> MaxPushes, frames |-> StreamFrames, outputs |-> StreamOutputs]

\* variant: the None test left out
ModelNeverMissing == FALSE

\* if interpreter is None
ModelMissing == interpreter = "None"

\* variant: the None test of the preprocessed image left out
AlwaysLocated(f) == TRUE

\* if image is None (preprocess_image returns None exactly when crop_eyes does)
Located(f) == ScanFaces(f.faces, 1) # 0

\* variant: absence answered with the neutral label
AbsentAwake == "Awake"

\* the label of the absence branch
AbsentLabel == "Drowsy"

\* the label of the empty-output branch
FailLabel == "Drowsy"

\* detect_video up to the with-block: the answer, or NoResponse to go on
EarlyResponse(f) ==
    IF ~f.field THEN ErrorResponse("No video frame provided")
    ELSE IF ~f.decodable THEN ErrorResponse("Failed to read image")
    ELSE IF ModelMissing THEN StatusResponse("Model not loaded")
    ELSE IF ~Located(f) THEN StatusResponse(AbsentLabel)
    ELSE NoResponse

Receive(t) ==
    /\ pc[t] \in {"idle", "done"}
    /\ served < clients.quota
    /\ \E f \in clients.frames :
         LET early == EarlyResponse(f)
         IN  /\ frame' = [frame EXCEPT ![t] = f]
             /\ response' = [response EXCEPT ![t] = early]
             /\ IF early = NoResponse
                THEN /\ \E o \in clients.outputs : tensor' = [tensor EXCEPT ![t] = o]
                     /\ pc' = [pc EXCEPT ![t] = "lock"]
                ELSE /\ tensor' = [tensor EXCEPT ![t] = NoData]
                     /\ pc' = [pc EXCEPT ![t] = "done"]
    /\ served' = served + 1
    /\ output_data' = [output_data EXCEPT ![t] = NoTensor]
    /\ smoothed_prob' = [smoothed_prob EXCEPT ![t] = NoMean]
    /\ my_push' = [my_push EXCEPT ![t] = 0]
    /\ atomic_label' = [atomic_label EXCEPT ![t] = NoLabel]
    /\ UNCHANGED <<startup, engine, previous_predictions, entered, invocations,
                   pushed, rest>>

\* variant: the with-block entered without waiting for the lock
LockIgnored == TRUE

\* threading.Lock: acquire succeeds only when nobody holds it
LockFree == model_lock = 0

\* with model_lock:
Acquire(t) ==
    /\ pc[t] = "lock"
    /\ LockFree
    /\ model_lock' = t
    /\ entered' = entered + 1
    /\ pc' = [pc EXCEPT ![t] = "set_tensor"]
    /\ UNCHANGED <<startup, input_tensor, output_tensor, previous_predictions,
                   frame, tensor, output_data, smoothed_prob, response, served,
                   invocations, pushed, my_push, atomic_label, rest>>

\* interpreter.set_tensor(input_details[0]['index'], image)
SetTensor(t) ==
    /\ pc[t] = "set_tensor"
    /\ input_tensor' = [owner |-> t, out |-> tensor[t]]
    /\ pc' = [pc EXCEPT ![t] = "invoke"]
    /\ UNCHANGED <<startup, model_lock, output_tensor, previous_predictions,
                   frame, tensor, output_data, smoothed_prob, response, served,
                   history, rest>>

\* interpreter.invoke(): the output buffer gets the classifier's answer for
\* whatever input is bound
Invoke(t) ==
    /\ pc[t] = "invoke"
    /\ output_tensor' = input_tensor
    /\ invocations' = invocations + 1
    /\ pc' = [pc EXCEPT ![t] = "get_tensor"]
    /\ UNCHANGED <<startup, model_lock, input_tensor, previous_predictions,
                   frame, tensor, output_data, smoothed_prob, response, served,
                   entered, pushed, my_push, atomic_label, rest>>

\* output_data = interpreter.get_tensor(...), then the with-block releases the lock
GetTensor(t) ==
    /\ pc[t] = "get_tensor"
    /\ output_data' = [output_data EXCEPT ![t] = output_tensor]
    /\ model_lock' = 0
    /\ pc' = [pc EXCEPT ![t] = "append"]
    /\ UNCHANGED <<startup, input_tensor, output_tensor, previous_predictions,
                   frame, tensor, smoothed_prob, response, served, history, rest>>

\* the test of the output and previous_predictions.append(probability),
\* or the else branch's return
AppendStep(t) ==
    /\ pc[t] = "append"
    /\ IF OutputUsable(output_data[t].out)
       THEN LET probability == Probability(output_data[t].out)
                window == DequeAppend(previous_predictions, probability)
            IN  /\ previous_predictions' = window
                /\ pushed' = Append(pushed, probability)
                /\ my_push' = [my_push EXCEPT ![t] = @ + 1]
                /\ atomic_label' = [atomic_label EXCEPT ![t] = Decide(Mean(window))]
                /\ pc' = [pc EXCEPT ![t] = "mean"]
                /\ UNCHANGED response
       ELSE /\ response' = [response EXCEPT ![t] = StatusResponse(FailLabel)]
            /\ pc' = [pc EXCEPT ![t] = "done"]
            /\ UNCHANGED <<previous_predictions, pushed, my_push, atomic_label>>
    /\ UNCHANGED <<startup, engine, frame, tensor, output_data, smoothed_prob,
                   served, entered, invocations, rest>>

\* smoothed_prob = np.mean(previous_predictions) and the return
MeanStep(t) ==
    /\ pc[t] = "mean"
    /\ smoothed_prob' = [smoothed_prob EXCEPT ![t] = Mean(previous_predictions)]
    /\ response' = [response EXCEPT ![t] =
                        StatusResponse(Decide(Mean(previous_predictions)))]
    /\ pc' = [pc EXCEPT ![t] = "done"]
    /\ inferred' = inferred + 1
    /\ UNCHANGED <<startup, engine, previous_predictions, frame, tensor,
                   output_data, served, history, stage, faces, eye_roi,
                   reshaped, clients>>

Next ==
    \E t \in Threads :
        \/ Receive(t)
        \/ Acquire(t)
        \/ SetTensor(t)
        \/ Invoke(t)
        \/ GetTensor(t)
        \/ AppendStep(t)
        \/ MeanStep(t)

Spec == Init /\ [][Next]_vars

SpecWindow == InitWindow /\ [][Next]_vars

\* ------------------------------------------------------- function runs
ServerLoaded ==
    /\ interpreter = "loaded"
    /\ IdleThreads
    /\ clients = [quota |-> 0, frames |-> {}, outputs |-> {}]

\* crop_eyes on every detection result within the bounds
InitLocator ==
    /\ ServerLoaded
    /\ input_shape = ExampleShape
    /\ stage = "input"
    /\ faces \in FaceLists
    /\ eye_roi = NoRegion
    /\ reshaped = NoPreprocessed

CropEyes ==
    /\ stage = "input"
    /\ eye_roi' = crop_eyes(faces, input_shape)
    /\ stage' = "cropped"
    /\ UNCHANGED <<startup, engine, previous_predictions, pc, frame, tensor,
                   output_data, smoothed_prob, response, served, history,
                   inferred, faces, reshaped, clients>>

NextLocator == CropEyes

SpecLocator == InitLocator /\ [][NextLocator]_vars

\* preprocess_image on one face with two eyes, for every declared input shape
InitPreprocess ==
    /\ ServerLoaded
    /\ input_shape \in Shapes
    /\ stage = "input"
    /\ faces \in {<< <<e1, e2>> >> : e1 \in Rects, e2 \in Rects}
    /\ eye_roi = NoRegion
    /\ reshaped = NoPreprocessed

PreprocessImage ==
    /\ stage = "input"
    /\ eye_roi' = crop_eyes(faces, input_shape)
    /\ reshaped' = preprocess_image(faces, input_shape)
    /\ stage' = "preprocessed"
    /\ UNCHANGED <<startup, engine, previous_predictions, pc, frame, tensor,
                   output_data, smoothed_prob, response, served, history,
                   inferred, faces, clients>>

NextPreprocess == PreprocessImage

SpecPreprocess == InitPreprocess /\ [][NextPreprocess]_vars

\* =================================================================
\* Properties
\* =================================================================
Done(t) == pc[t] = "done"
Decoded(t) == frame[t].field /\ frame[t].decodable
InCritical(t) == pc[t] \in {"set_tensor", "invoke", "get_tensor"}
HasRead(t) == output_data[t] # NoTensor

\* no face of the detections has two eyes
NoTwoEyes(fs) == \A i \in 1 .. Len(fs) : Len(fs[i]) < 2

\* the last n elements of s
LastN(s, n) == SubSeq(s, Len(s) - n + 1, Len(s))

\* the box over two eye rectangles as the source's arithmetic gives it:
\* from the smaller x to the right edge of the rectangle with the larger x
\* (the second one when the x are equal)
BoxOf(e1, e2) ==
    [x |-> Min(e1.x, e2.x),
     y |-> Min(e1.y, e2.y),
     w |-> (IF e1.x > e2.x THEN e1.x + e1.w ELSE e2.x + e2.w) - Min(e1.x, e2.x),
     h |-> Max(e1.h, e2.h)]

\* C1: at most one request is between set_tensor and get_tensor at any time,
\* and it holds the lock; the output a request has read is the one computed
\* from the tensor it bound itself; every entry into the with-block makes
\* exactly one invoke (entries still before their invoke are the difference).
C1_SerializedInference ==
    /\ Cardinality({t \in Threads : InCritical(t)}) <= 1
    /\ \A t \in Threads : InCritical(t) => model_lock = t
    /\ \A t \in Threads :
         HasRead(t) => output_data[t] = [owner |-> t, out |-> tensor[t]]
    /\ invocations =
         entered - Cardinality({t \in Threads : pc[t] \in {"set_tensor", "invoke"}})

\* C1 witness: a second request waits for the lock while another one, after
\* an earlier complete invocation, is about to read its output.
C1_Witness ==
    \E t \in Threads, u \in Threads :
        /\ t # u
        /\ pc[t] = "get_tensor"
        /\ pc[u] = "lock"
        /\ invocations = 2
        /\ tensor[t] # tensor[u]

\* C2 as stated: a decodable frame in which no face has two eyes is answered
\* 200 "Drowsy" whatever the outcome of the model load.
C2_AbsentAlwaysDrowsy ==
    \A t \in Threads :
        (Done(t) /\ Decoded(t) /\ NoTwoEyes(frame[t].faces))
            => response[t] = [code |-> 200, key |-> "status", value |-> "Drowsy"]

\* C2 amended: when the model loaded, a decodable frame in which no face has
\* two eyes is answered 200 "Drowsy", whatever the window holds; when the
\* load failed the answer is 200 "Model not loaded".
C2_AbsentDrowsyWhenLoaded ==
    \A t \in Threads :
        (Done(t) /\ Decoded(t) /\ NoTwoEyes(frame[t].faces))
            => response[t] =
                 [code |-> 200, key |-> "status",
                  value |-> IF interpreter = "loaded" THEN "Drowsy"
                            ELSE "Model not loaded"]

\* C2 witness: a frame whose only face has one eye is answered Drowsy while
\* the window is not empty and its mean would say Awake.
C2_Witness ==
    \E t \in Threads :
        /\ Done(t)
        /\ frame[t].faces = << <<EyeA>> >>
        /\ response[t].value = "Drowsy"
        /\ previous_predictions # << >>
        /\ SeqSum(previous_predictions) <= Threshold * Len(previous_predictions)

\* C3: with the load failed, every request with a decodable frame is answered
\* "Model not loaded", nobody enters the with-block, nothing is invoked or
\* pushed; with the model loaded no response says "Model not loaded"; and the
\* outcome of the load never changes.
C3_DegradedState ==
    /\ \A t \in Threads :
         (Done(t) /\ Decoded(t))
            => (interpreter = "None"
                  <=> response[t] = [code |-> 200, key |-> "status",
                                     value |-> "Model not loaded"])
    /\ \A t \in Threads :
         response[t].value = "Model not loaded" => interpreter = "None"
    /\ interpreter = "None" =>
         /\ entered = 0 /\ invocations = 0 /\ pushed = << >>
         /\ previous_predictions = << >>
         /\ \A t \in Threads : pc[t] \in {"idle", "done"}

C3_DegradedMode == [] C3_DegradedState /\ [][interpreter' = interpreter]_vars

\* C3 witness: the load failed and a second or later request, whose frame
\* shows two eyes, got "Model not loaded".
C3_Witness ==
    \E t \in Threads :
        /\ interpreter = "None"
        /\ served >= 2
        /\ Done(t)
        /\ frame[t].faces = << <<EyeA, EyeB>> >>
        /\ response[t].value = "Model not loaded"

\* C4: the step that returns a smoothed label reads the window as it is then,
\* after the request's own append, and answers Drowsy exactly when the sum of
\* the window exceeds half its length (mean > 0.5), Awake otherwise; the
\* response stays tied to that mean.
C4_StepDecides ==
    \A t \in Threads :
        (pc[t] = "mean" /\ pc'[t] = "done") =>
            /\ my_push[t] = 1
            /\ smoothed_prob'[t] =
                 <<SeqSum(previous_predictions), Len(previous_predictions)>>
            /\ response'[t].code = 200
            /\ response'[t].value =
                 IF SeqSum(previous_predictions) > Threshold * Len(previous_predictions)
                 THEN "Drowsy" ELSE "Awake"

C4_DoneDecided ==
    \A t \in Threads :
        (Done(t) /\ my_push[t] = 1) =>
            /\ smoothed_prob[t][2] >= 1
            /\ (response[t].value = "Drowsy"
                  <=> smoothed_prob[t][1] > Threshold * smoothed_prob[t][2])
            /\ (response[t].value = "Awake"
                  <=> smoothed_prob[t][1] <= Threshold * smoothed_prob[t][2])

C4_Threshold == [] C4_DoneDecided /\ [][C4_StepDecides]_vars

\* C4 witness: a request whose own probability is 0.75 read a mean of
\* exactly 0.5 over two entries and answered Awake.
C4_Witness ==
    \E t \in Threads :
        /\ Done(t)
        /\ my_push[t] = 1
        /\ Probability(output_data[t].out) = 3
        /\ smoothed_prob[t] = <<4, 2>>
        /\ response[t].value = "Awake"

\* C5: the window never holds more than 5 values, it is exactly the last
\* min(n, 5) of the n values pushed so far, in push order, and its length
\* never decreases.
C5_WindowState ==
    /\ Len(previous_predictions) <= 5
    /\ Len(previous_predictions) = Min(Len(pushed), 5)
    /\ previous_predictions = LastN(pushed, Min(Len(pushed), 5))

C5_BoundedFifo ==
    /\ [] C5_WindowState
    /\ [][Len(previous_predictions') >= Len(previous_predictions)]_vars

\* C5 witness: six values were pushed by interleaved requests, the first one
\* differs from the second and is gone from the window.
C5_Witness ==
    /\ Len(pushed) = 6
    /\ pushed[1] # pushed[2]
    /\ previous_predictions = SubSeq(pushed, 2, 6)
    /\ \A t \in Threads : pc[t] = "mean"

\* C9 as stated: the label a request returns is the label of the window as it
\* was right after the request's own append.
C9_PushMeanAtomic ==
    \A t \in Threads :
        (Done(t) /\ my_push[t] = 1) => response[t].value = atomic_label[t]

\* C10: a request has appended (once) exactly when it carried a decodable
\* frame with a two-eyed face to a loaded model, got a non-empty output and is
\* past its append; every other request has appended nothing; the values
\* pushed are those of the requests that returned a smoothed label plus those
\* between their append and their mean; and the window changes only in an
\* append step of such a request, by that one value.
C10_Inferring(t) ==
    /\ Decoded(t)
    /\ interpreter = "loaded"
    /\ ~NoTwoEyes(frame[t].faces)
    /\ tensor[t] # EmptyOutput
    /\ pc[t] \in {"mean", "done"}

C10_PushCount ==
    /\ \A t \in Threads : my_push[t] = IF C10_Inferring(t) THEN 1 ELSE 0
    /\ Len(pushed) = inferred + Cardinality({t \in Threads : pc[t] = "mean"})
    /\ Len(previous_predictions) = Min(Len(pushed), WindowMaxLen)

C10_WindowStep ==
    (previous_predictions' # previous_predictions \/ pushed' # pushed) =>
        \E t \in Threads :
            /\ pc[t] = "append" /\ pc'[t] = "mean"
            /\ tensor[t] # EmptyOutput
            /\ pushed' = Append(pushed, tensor[t][1])
            /\ previous_predictions' =
                 LastN(Append(previous_predictions, tensor[t][1]),
                       Min(Len(previous_predictions) + 1, WindowMaxLen))

C10_WindowFrame == [] C10_PushCount /\ [][C10_WindowStep]_vars

\* C10 witness: after three requests, one thread's request ended Drowsy on an
\* empty output and the other's ended 400, and the single value in the window
\* is the one of the only request that returned a smoothed label.
C10_Witness ==
    \E t \in Threads, u \in Threads :
        /\ served = 3
        /\ Done(t) /\ HasRead(t) /\ tensor[t] = EmptyOutput
        /\ response[t].value = "Drowsy"
        /\ Done(u) /\ response[u].code = 400
        /\ inferred = 1
        /\ Len(previous_predictions) = 1

C7_OrderIndependent ==
    stage = "preprocessed" =>
        eye_roi.rect = crop_eyes(<< <<faces[1][2], faces[1][1]>> >>, input_shape).rect

\* C8 as stated: the tensor has the declared input shape (1, H, W, C).
C8_TensorShape ==
    (stage = "preprocessed" /\ reshaped.found) => reshaped.shape = input_shape

====
